---------------------------- MODULE Spec2Model ----------------------------
(***************************************************************************)
(* Model of the Google Sheets integration client:                          *)
(*   intergrations/src/components/GoogleSheetsIntegration.tsx  (controller)*)
(*   intergrations/src/services/googleSheetsAPI.ts             (API client)*)
(*                                                                         *)
(* The controller is a React component: seven useState fields, one mount   *)
(* effect, and async handlers.  Every handler is split at its `await`:     *)
(* one action for the part that runs on the click (up to the request being *)
(* issued) and one for the continuation that runs when the response or the *)
(* failure arrives.  Requests in flight are part of the state; responses   *)
(* arrive in any order.                                                    *)
(***************************************************************************)
EXTENDS Naturals, Sequences, FiniteSets, Bags, TLC

(***************************************************************************)
(* Bounds of the model.                                                    *)
(***************************************************************************)
\* Requests (of all kinds together) that may be in flight at once.
MaxInFlight == 3
\* Preview tables of the rendering specification: header count, row count,
\* row length.
MaxCols == 3
MaxRows == 6
MaxRowLen == 3

(***************************************************************************)
(* Values.                                                                 *)
(***************************************************************************)
\* null (selectedSpreadsheet, sheetData)
Null == [null |-> TRUE]
\* undefined: the value of row[colIndex] past the end of the row
Undefined == "<undefined>"

\* SpreadsheetInfo.sheets[i]; index and sheet_type are never read
SheetRef(id, title) == [sheet_id |-> id, title |-> title]

\* SpreadsheetInfo
SpreadsheetInfo(id, title, sheets) ==
    [spreadsheet_id |-> id, title |-> title, sheets |-> sheets]

\* The spreadsheets the backend knows: one with two sheets, one with a sheet
\* of the same title as a sheet of the first, one with no sheet.
SS_A == SpreadsheetInfo("A", "Alpha", <<SheetRef(1, "S1"), SheetRef(2, "S2")>>)
SS_B == SpreadsheetInfo("B", "Beta", <<SheetRef(1, "S1")>>)
SS_Z == SpreadsheetInfo("Z", "Zero", <<>>)

\* Bodies of successful GET /spreadsheets responses
ListResponses == { <<SS_A, SS_B, SS_Z>>, <<SS_B>> }

\* headers and data of a preview
Table(headers, data) == [headers |-> headers, data |-> data]

\* Bodies (headers, data) of successful sheet responses in Spec
PreviewTables ==
    { Table(<<"A", "B", "C">>, << <<"1", "2">> >>),
      Table(<<>>, << <<"1">> >>) }

\* SheetData
SheetData(id, name, t) ==
    [spreadsheet_id |-> id, sheet_name |-> name,
     headers |-> t.headers, data |-> t.data]

\* The backend's answer to GET /spreadsheet/{id}/sheet/{name}: it names the
\* spreadsheet and the sheet that were asked for.
BackendSheetData(req, t) == SheetData(req.spreadsheet_id, req.sheet_name, t)

\* Messages of the error banner
ErrNone == ""
ErrAuthFailed == "Authentication failed"
ErrLogin == "Failed to initiate Google login"
ErrLogout == "Failed to logout"
ErrList == "Failed to load spreadsheets"
ErrSheet == "Failed to load sheet data"
ErrSend == "Failed to send data to backend"

\* The values of the `message` query parameter ("" when absent)
UrlMessages == { "", "access_denied" }

(***************************************************************************)
(* State.                                                                  *)
(***************************************************************************)
VARIABLES
    \* useState fields of the component
    isAuthenticated, isLoading, spreadsheets, selectedSpreadsheet,
    selectedSheet, sheetData, error,
    \* the browser: page lifecycle and the query string
    page, urlAuth, urlMessage,
    \* requests in flight
    statusReq, loginReqs, logoutReqs, listReqs, sheetReqs, sendTimers,
    \* history: the last step taken and the view it was taken from, the
    \* query parameter the page was loaded with, whether the logout button
    \* has been clicked, the request that sheetData is the answer to,
    \* whether a logout has succeeded
    last, mountAuth, logoutClicked, previewOf, loggedOut

session == <<isAuthenticated, spreadsheets, selectedSpreadsheet,
             selectedSheet, sheetData>>
browser == <<page, urlAuth, urlMessage>>
requests == <<statusReq, loginReqs, logoutReqs, listReqs, sheetReqs,
              sendTimers>>
history == <<mountAuth, logoutClicked, loggedOut>>
vars == <<session, isLoading, error, browser, requests, last, history,
          previewOf>>

\* Number of requests in flight
InFlight ==
    (IF statusReq = "pending" THEN 1 ELSE 0) + loginReqs + logoutReqs
    + listReqs + BagCardinality(sheetReqs) + sendTimers

\* A new request may be issued (bound of the model)
Room == InFlight < MaxInFlight

\* The component is mounted.  Assigning window.location.href (line 46) is
\* recorded in page but stops nothing: no handler or continuation looks at
\* it, so clicks and late answers are still handled afterwards.
Live == page # "init"

\* The view on screen: the login page, or how far the user has drilled down
SubState ==
    IF ~isAuthenticated THEN "unauthenticated"
    ELSE IF sheetData # Null THEN "preview"
    ELSE IF selectedSpreadsheet # Null THEN "selected"
    ELSE "list"

\* The step `op` is taken from the current view
Step(op) == last' = [op |-> op, from |-> SubState]

\* The step `op` is taken from the current view and carries `data`: the
\* body of the answer it handles, or the payload it logs
StepWith(op, data) == last' = [op |-> op, from |-> SubState, data |-> data]

(***************************************************************************)
(* API client (googleSheetsAPI.ts).  `outcome` is what axios does.         *)
(***************************************************************************)
\* Variant of ApiCheckAuthStatus: the catch block answers true
ApiCheckAuthStatus_FailOpen(outcome) ==
    CASE outcome = "true" -> TRUE
      [] outcome = "false" -> FALSE
      [] outcome = "fail" -> TRUE

\* checkAuthStatus: the response's boolean, or false when axios throws
ApiCheckAuthStatus(outcome) ==
    CASE outcome = "true" -> TRUE
      [] outcome = "false" -> FALSE
      [] outcome = "fail" -> FALSE

\* initiateLogin, logout, getSpreadsheets, getSheetData: rethrow on failure
ApiThrows(outcome) == outcome = "fail"

(***************************************************************************)
(* Initial state: the component constructed, the effect not yet run.       *)
(***************************************************************************)
Init ==
    /\ isAuthenticated = FALSE
    /\ isLoading = FALSE
    /\ spreadsheets = <<>>
    /\ selectedSpreadsheet = Null
    /\ selectedSheet = ""
    /\ sheetData = Null
    /\ error = ErrNone
    /\ page = "init"
    /\ urlAuth \in {"none", "success", "error"}
    /\ urlMessage \in UrlMessages
    /\ (urlAuth # "error" => urlMessage = "")
    /\ statusReq = "none"
    /\ loginReqs = 0
    /\ logoutReqs = 0
    /\ listReqs = 0
    /\ sheetReqs = EmptyBag
    /\ sendTimers = 0
    /\ last = [op |-> "init", from |-> "unauthenticated"]
    /\ mountAuth = urlAuth
    /\ logoutClicked = FALSE
    /\ previewOf = Null
    /\ loggedOut = FALSE


(***************************************************************************)
(* Mount: the effect of lines 14-27.  checkAuthStatus() runs up to its     *)
(* await (the status request is issued), then the query string is read.    *)
(***************************************************************************)
\* urlParams.get('message') || 'Authentication failed'
CallbackMessage(message) == IF message # "" THEN message ELSE ErrAuthFailed

\* Variant of Mount: the query string is not rewritten after auth=success
Mount_KeepsQuery ==
    /\ page = "init"
    /\ page' = "mounted"
    /\ statusReq' = "pending"
    /\ IF urlAuth = "success"
       THEN /\ isAuthenticated' = TRUE
            /\ UNCHANGED <<error, urlAuth, urlMessage>>
       ELSE IF urlAuth = "error"
       THEN /\ error' = CallbackMessage(urlMessage)
            /\ urlAuth' = "none"
            /\ urlMessage' = ""
            /\ UNCHANGED isAuthenticated
       ELSE UNCHANGED <<isAuthenticated, error, urlAuth, urlMessage>>
    /\ Step("mount")
    /\ UNCHANGED <<isLoading, spreadsheets, selectedSpreadsheet,
                   selectedSheet, sheetData>>
    /\ UNCHANGED <<loginReqs, logoutReqs, listReqs, sheetReqs, sendTimers>>
    /\ UNCHANGED <<history, previewOf>>

Mount ==
    /\ page = "init"
    /\ page' = "mounted"
    /\ statusReq' = "pending"
    /\ IF urlAuth = "success"
       THEN /\ isAuthenticated' = TRUE
            /\ urlAuth' = "none"
            /\ urlMessage' = ""
            /\ UNCHANGED error
       ELSE IF urlAuth = "error"
       THEN /\ error' = CallbackMessage(urlMessage)
            /\ urlAuth' = "none"
            /\ urlMessage' = ""
            /\ UNCHANGED isAuthenticated
       ELSE UNCHANGED <<isAuthenticated, error, urlAuth, urlMessage>>
    /\ Step("mount")
    /\ UNCHANGED <<isLoading, spreadsheets, selectedSpreadsheet,
                   selectedSheet, sheetData>>
    /\ UNCHANGED <<loginReqs, logoutReqs, listReqs, sheetReqs, sendTimers>>
    /\ UNCHANGED <<history, previewOf>>

(***************************************************************************)
(* loadSpreadsheets (lines 66-77), up to its await.                        *)
(***************************************************************************)
LoadSpreadsheetsStart ==
    /\ isLoading' = TRUE
    /\ error' = ErrNone
    /\ listReqs' = listReqs + 1

(***************************************************************************)
(* checkAuthStatus (lines 29-39) resumed by the answer to /auth/status.    *)
(* It is not gated by isLoading and calls loadSpreadsheets itself.         *)
(***************************************************************************)
\* Variant of CheckAuthStatusResume: loadSpreadsheets is not called
CheckAuthStatusResume_NoLoad(outcome) ==
    /\ Live
    /\ statusReq = "pending"
    /\ statusReq' = outcome
    /\ isAuthenticated' = ApiCheckAuthStatus(outcome)
    /\ Step("status_" \o outcome)
    /\ UNCHANGED <<isLoading, error, listReqs>>
    /\ UNCHANGED <<spreadsheets, selectedSpreadsheet, selectedSheet, sheetData>>
    /\ UNCHANGED <<browser, loginReqs, logoutReqs, sheetReqs, sendTimers>>
    /\ UNCHANGED <<history, previewOf>>

\* Variant of CheckAuthStatusResume: the answer never lowers the flag
CheckAuthStatusResume_OnlyRaises(outcome) ==
    /\ Live
    /\ statusReq = "pending"
    /\ statusReq' = outcome
    /\ LET authenticated == ApiCheckAuthStatus(outcome) IN
         /\ isAuthenticated' = (isAuthenticated \/ authenticated)
         /\ IF authenticated
            THEN LoadSpreadsheetsStart
            ELSE UNCHANGED <<isLoading, error, listReqs>>
    /\ Step("status_" \o outcome)
    /\ UNCHANGED <<spreadsheets, selectedSpreadsheet, selectedSheet, sheetData>>
    /\ UNCHANGED <<browser, loginReqs, logoutReqs, sheetReqs, sendTimers>>
    /\ UNCHANGED <<history, previewOf>>

CheckAuthStatusResume(outcome) ==
    /\ Live
    /\ statusReq = "pending"
    /\ statusReq' = outcome
    /\ LET authenticated == ApiCheckAuthStatus(outcome) IN
         /\ isAuthenticated' = authenticated
         /\ IF authenticated
            THEN LoadSpreadsheetsStart
            ELSE UNCHANGED <<isLoading, error, listReqs>>
    /\ Step("status_" \o outcome)
    /\ UNCHANGED <<spreadsheets, selectedSpreadsheet, selectedSheet, sheetData>>
    /\ UNCHANGED <<browser, loginReqs, logoutReqs, sheetReqs, sendTimers>>
    /\ UNCHANGED <<history, previewOf>>

(***************************************************************************)
(* handleLogin (lines 41-51); the button is rendered when not              *)
(* authenticated and disabled while isLoading (lines 131-157).             *)
(***************************************************************************)
HandleLogin ==
    /\ Live /\ Room
    /\ ~isAuthenticated
    /\ ~isLoading
    /\ isLoading' = TRUE
    /\ error' = ErrNone
    /\ loginReqs' = loginReqs + 1
    /\ Step("login_click")
    /\ UNCHANGED <<session, browser, history, previewOf>>
    /\ UNCHANGED <<statusReq, logoutReqs, listReqs, sheetReqs, sendTimers>>

\* The answer to /auth/login: assign auth_url to window.location.href, or
\* report the failure.
HandleLoginResume(outcome) ==
    /\ Live
    /\ loginReqs > 0
    /\ loginReqs' = loginReqs - 1
    /\ IF ApiThrows(outcome)
       THEN /\ error' = ErrLogin
            /\ isLoading' = FALSE
            /\ UNCHANGED page
       ELSE /\ page' = "navigated"
            /\ UNCHANGED <<error, isLoading>>
    /\ Step("login_" \o outcome)
    /\ UNCHANGED <<session, urlAuth, urlMessage, history, previewOf>>
    /\ UNCHANGED <<statusReq, logoutReqs, listReqs, sheetReqs, sendTimers>>

(***************************************************************************)
(* handleLogout (lines 53-64); the button is rendered when authenticated   *)
(* and is never disabled (lines 170-173).                                  *)
(***************************************************************************)
HandleLogout ==
    /\ Live /\ Room
    /\ isAuthenticated
    /\ logoutReqs' = logoutReqs + 1
    /\ logoutClicked' = TRUE
    /\ Step("logout_click")
    /\ UNCHANGED <<session, isLoading, error, browser, mountAuth, previewOf,
                   loggedOut>>
    /\ UNCHANGED <<statusReq, loginReqs, listReqs, sheetReqs, sendTimers>>

\* Variant of LogoutSucceeded: setSheetData(null) is missing
LogoutSucceeded_KeepsPreview ==
    /\ Live
    /\ logoutReqs > 0
    /\ logoutReqs' = logoutReqs - 1
    /\ isAuthenticated' = FALSE
    /\ spreadsheets' = <<>>
    /\ selectedSpreadsheet' = Null
    /\ selectedSheet' = ""
    /\ loggedOut' = TRUE
    /\ Step("logout_ok")
    /\ UNCHANGED <<sheetData, previewOf>>
    /\ UNCHANGED <<isLoading, error, browser, mountAuth, logoutClicked>>
    /\ UNCHANGED <<statusReq, loginReqs, listReqs, sheetReqs, sendTimers>>

\* logout() resolved: lines 56-60
LogoutSucceeded ==
    /\ Live
    /\ logoutReqs > 0
    /\ logoutReqs' = logoutReqs - 1
    /\ isAuthenticated' = FALSE
    /\ spreadsheets' = <<>>
    /\ selectedSpreadsheet' = Null
    /\ selectedSheet' = ""
    /\ sheetData' = Null
    /\ previewOf' = Null
    /\ loggedOut' = TRUE
    /\ Step("logout_ok")
    /\ UNCHANGED <<isLoading, error, browser, mountAuth, logoutClicked>>
    /\ UNCHANGED <<statusReq, loginReqs, listReqs, sheetReqs, sendTimers>>

\* Variant of LogoutFailed: the local state is cleared all the same
LogoutFailed_ClearsSession ==
    /\ Live
    /\ logoutReqs > 0
    /\ logoutReqs' = logoutReqs - 1
    /\ error' = ErrLogout
    /\ isAuthenticated' = FALSE
    /\ spreadsheets' = <<>>
    /\ selectedSpreadsheet' = Null
    /\ selectedSheet' = ""
    /\ sheetData' = Null
    /\ previewOf' = Null
    /\ Step("logout_fail")
    /\ UNCHANGED <<isLoading, browser, history>>
    /\ UNCHANGED <<statusReq, loginReqs, listReqs, sheetReqs, sendTimers>>

\* logout() threw: line 62
LogoutFailed ==
    /\ Live
    /\ logoutReqs > 0
    /\ logoutReqs' = logoutReqs - 1
    /\ error' = ErrLogout
    /\ Step("logout_fail")
    /\ UNCHANGED <<session, isLoading, browser, history, previewOf>>
    /\ UNCHANGED <<statusReq, loginReqs, listReqs, sheetReqs, sendTimers>>

HandleLogoutResume(outcome) ==
    IF ApiThrows(outcome) THEN LogoutFailed ELSE LogoutSucceeded

(***************************************************************************)
(* Refresh button (line 182): loadSpreadsheets, disabled while isLoading.  *)
(***************************************************************************)
LoadSpreadsheets ==
    /\ Live /\ Room
    /\ isAuthenticated
    /\ ~isLoading
    /\ LoadSpreadsheetsStart
    /\ Step("refresh_click")
    /\ UNCHANGED <<session, browser, history, previewOf>>
    /\ UNCHANGED <<statusReq, loginReqs, logoutReqs, sheetReqs, sendTimers>>

\* Variant of LoadSpreadsheetsResume: a failure empties the list
LoadSpreadsheetsResume_ClearsOnFailure(outcome, sheets) ==
    /\ Live
    /\ listReqs > 0
    /\ listReqs' = listReqs - 1
    /\ IF ApiThrows(outcome)
       THEN /\ error' = ErrList
            /\ Step("list_fail")
            /\ spreadsheets' = <<>>
       ELSE /\ spreadsheets' = sheets
            /\ StepWith("list_ok", sheets)
            /\ UNCHANGED error
    /\ isLoading' = FALSE
    /\ UNCHANGED <<isAuthenticated, selectedSpreadsheet, selectedSheet,
                   sheetData>>
    /\ UNCHANGED <<browser, history, previewOf>>
    /\ UNCHANGED <<statusReq, loginReqs, logoutReqs, sheetReqs, sendTimers>>

\* The answer to /spreadsheets: lines 71-76
LoadSpreadsheetsResume(outcome, sheets) ==
    /\ Live
    /\ listReqs > 0
    /\ listReqs' = listReqs - 1
    /\ IF ApiThrows(outcome)
       THEN /\ error' = ErrList
            /\ Step("list_fail")
            /\ UNCHANGED spreadsheets
       ELSE /\ spreadsheets' = sheets
            /\ StepWith("list_ok", sheets)
            /\ UNCHANGED error
    /\ isLoading' = FALSE
    /\ UNCHANGED <<isAuthenticated, selectedSpreadsheet, selectedSheet,
                   sheetData>>
    /\ UNCHANGED <<browser, history, previewOf>>
    /\ UNCHANGED <<statusReq, loginReqs, logoutReqs, sheetReqs, sendTimers>>

(***************************************************************************)
(* handleSpreadsheetSelect (lines 79-83); a card is rendered for every     *)
(* element of spreadsheets and its onClick is never disabled (190-204).    *)
(***************************************************************************)
\* Variant of HandleSpreadsheetSelect: setSelectedSheet('') is missing
HandleSpreadsheetSelect_KeepsSheet(spreadsheet) ==
    /\ Live
    /\ isAuthenticated
    /\ \E i \in DOMAIN spreadsheets : spreadsheets[i] = spreadsheet
    /\ selectedSpreadsheet' = spreadsheet
    /\ sheetData' = Null
    /\ previewOf' = Null
    /\ Step("select_spreadsheet")
    /\ UNCHANGED <<isAuthenticated, spreadsheets, selectedSheet, isLoading,
                   error>>
    /\ UNCHANGED <<browser, requests, history>>

HandleSpreadsheetSelect(spreadsheet) ==
    /\ Live
    /\ isAuthenticated
    /\ \E i \in DOMAIN spreadsheets : spreadsheets[i] = spreadsheet
    /\ selectedSpreadsheet' = spreadsheet
    /\ selectedSheet' = ""
    /\ sheetData' = Null
    /\ previewOf' = Null
    /\ Step("select_spreadsheet")
    /\ UNCHANGED <<isAuthenticated, spreadsheets, isLoading, error>>
    /\ UNCHANGED <<browser, requests, history>>

(***************************************************************************)
(* handleSheetSelect (lines 85-99); a button is rendered for every sheet   *)
(* of selectedSpreadsheet and is disabled while isLoading (214-230).       *)
(***************************************************************************)
\* The sheet buttons on screen
SheetButtons ==
    IF isAuthenticated /\ selectedSpreadsheet # Null
    THEN { selectedSpreadsheet.sheets[i].title :
             i \in DOMAIN selectedSpreadsheet.sheets }
    ELSE {}

\* The request of line 92
SheetRequest(sheetName) ==
    [spreadsheet_id |-> selectedSpreadsheet.spreadsheet_id,
     sheet_name |-> sheetName]

HandleSheetSelect(sheetName) ==
    /\ Live /\ Room
    /\ sheetName \in SheetButtons
    /\ ~isLoading
    /\ selectedSpreadsheet # Null
    /\ isLoading' = TRUE
    /\ error' = ErrNone
    /\ selectedSheet' = sheetName
    /\ sheetReqs' = sheetReqs (+) SetToBag({SheetRequest(sheetName)})
    /\ Step("sheet_click")
    /\ UNCHANGED <<isAuthenticated, spreadsheets, selectedSpreadsheet,
                   sheetData>>
    /\ UNCHANGED <<browser, history, previewOf>>
    /\ UNCHANGED <<statusReq, loginReqs, logoutReqs, listReqs, sendTimers>>

\* Variant of HandleSheetSelectResume: setIsLoading(false) only after a
\* successful answer (no finally)
HandleSheetSelectResume_NoFinally(req, outcome, t) ==
    /\ Live
    /\ BagIn(req, sheetReqs)
    /\ sheetReqs' = sheetReqs (-) SetToBag({req})
    /\ IF ApiThrows(outcome)
       THEN /\ error' = ErrSheet
            /\ UNCHANGED <<sheetData, previewOf, isLoading>>
       ELSE /\ sheetData' = BackendSheetData(req, t)
            /\ previewOf' = req
            /\ isLoading' = FALSE
            /\ UNCHANGED error
    /\ Step("sheet_" \o outcome)
    /\ UNCHANGED <<isAuthenticated, spreadsheets, selectedSpreadsheet,
                   selectedSheet>>
    /\ UNCHANGED <<browser, history>>
    /\ UNCHANGED <<statusReq, loginReqs, logoutReqs, listReqs, sendTimers>>

\* The answer to the request `req`: lines 93-97.  Nothing compares the
\* request with the current selection.
HandleSheetSelectResume(req, outcome, t) ==
    /\ Live
    /\ BagIn(req, sheetReqs)
    /\ sheetReqs' = sheetReqs (-) SetToBag({req})
    /\ IF ApiThrows(outcome)
       THEN /\ error' = ErrSheet
            /\ UNCHANGED <<sheetData, previewOf>>
       ELSE /\ sheetData' = BackendSheetData(req, t)
            /\ previewOf' = req
            /\ UNCHANGED error
    /\ isLoading' = FALSE
    /\ Step("sheet_" \o outcome)
    /\ UNCHANGED <<isAuthenticated, spreadsheets, selectedSpreadsheet,
                   selectedSheet>>
    /\ UNCHANGED <<browser, history>>
    /\ UNCHANGED <<statusReq, loginReqs, logoutReqs, listReqs, sendTimers>>

(***************************************************************************)
(* sendToBackend (lines 101-129); the button is rendered when sheetData is *)
(* set and is disabled while isLoading (233-240).  The simulated call is a *)
(* timer that cannot fail.                                                 *)
(***************************************************************************)
\* The payload of lines 110-116, without its timestamp (the clock is not
\* part of the state)
Payload(sd) ==
    [spreadsheet_id |-> sd.spreadsheet_id, sheet_name |-> sd.sheet_name,
     headers |-> sd.headers, data |-> sd.data]

\* Variant of SendToBackendCall: the early return of line 102 is missing
SendToBackendCall_NoEarlyReturn ==
    /\ Live /\ Room
    /\ isLoading' = TRUE
    /\ error' = ErrNone
    /\ sendTimers' = sendTimers + 1
    /\ StepWith("send_click",
                IF sheetData = Null THEN Null ELSE Payload(sheetData))
    /\ UNCHANGED <<session, browser, history, previewOf>>
    /\ UNCHANGED <<statusReq, loginReqs, logoutReqs, listReqs, sheetReqs>>

\* The handler, lines 101-121: it returns at once without a preview, else
\* it logs the payload and starts the timer
SendToBackendCall ==
    /\ Live
    /\ IF sheetData = Null
       THEN /\ Step("send_skip")
            /\ UNCHANGED <<isLoading, error, sendTimers>>
       ELSE /\ Room
            /\ isLoading' = TRUE
            /\ error' = ErrNone
            /\ sendTimers' = sendTimers + 1
            /\ StepWith("send_click", Payload(sheetData))
    /\ UNCHANGED <<session, browser, history, previewOf>>
    /\ UNCHANGED <<statusReq, loginReqs, logoutReqs, listReqs, sheetReqs>>

\* The button: rendered with a preview, disabled while isLoading
SendToBackend ==
    /\ isAuthenticated
    /\ ~isLoading
    /\ sheetData # Null
    /\ SendToBackendCall

\* The timer fired: lines 123-128
SendToBackendResume ==
    /\ Live
    /\ sendTimers > 0
    /\ sendTimers' = sendTimers - 1
    /\ isLoading' = FALSE
    /\ Step("send_done")
    /\ UNCHANGED <<session, error, browser, history, previewOf>>
    /\ UNCHANGED <<statusReq, loginReqs, logoutReqs, listReqs, sheetReqs>>

(***************************************************************************)
(* Rendering of the preview table (lines 249-273).                         *)
(***************************************************************************)
\* sheetData.data.slice(0, 5)
PreviewRowLimit == 5

\* array.slice(0, n)
Slice(seq, n) == SubSeq(seq, 1, IF Len(seq) < n THEN Len(seq) ELSE n)

\* row[colIndex]; colIndex counts from 0
Index(row, colIndex) ==
    IF colIndex + 1 \in DOMAIN row THEN row[colIndex + 1] ELSE Undefined

\* JavaScript falsiness of a string or undefined
Falsy(v) == v = Undefined \/ v = ""

\* Variant of RenderCell: the cell is row[colIndex], without the || ''
RenderCell_NoFallback(row, colIndex) == Index(row, colIndex)

\* row[colIndex] || ''
RenderCell(row, colIndex) ==
    IF Falsy(Index(row, colIndex)) THEN "" ELSE Index(row, colIndex)

\* One <tr>: a <td> for every header
RenderRow(headers, row) ==
    [c \in 1..Len(headers) |-> RenderCell(row, c - 1)]

\* The <tbody>, or Null when no table is rendered (no headers)
RenderBody(sd) ==
    IF Len(sd.headers) > 0
    THEN LET shown == Slice(sd.data, PreviewRowLimit) IN
           [r \in 1..Len(shown) |-> RenderRow(sd.headers, shown[r])]
    ELSE Null

(***************************************************************************)
(* The specification of the client.                                        *)
(***************************************************************************)
Outcomes == {"ok", "fail"}

Next ==
    \/ Mount
    \/ \E outcome \in {"true", "false", "fail"} : CheckAuthStatusResume(outcome)
    \/ HandleLogin
    \/ \E outcome \in Outcomes : HandleLoginResume(outcome)
    \/ HandleLogout
    \/ \E outcome \in Outcomes : HandleLogoutResume(outcome)
    \/ LoadSpreadsheets
    \/ \E outcome \in Outcomes, sheets \in ListResponses :
         LoadSpreadsheetsResume(outcome, sheets)
    \/ \E spreadsheet \in {SS_A, SS_B, SS_Z} :
         HandleSpreadsheetSelect(spreadsheet)
    \/ \E sheetName \in SheetButtons : HandleSheetSelect(sheetName)
    \/ \E req \in BagToSet(sheetReqs), outcome \in Outcomes, t \in PreviewTables :
         HandleSheetSelectResume(req, outcome, t)
    \/ SendToBackend
    \/ SendToBackendResume

Spec == Init /\ [][Next]_vars

(***************************************************************************)
(* The client when every request is answered: each issued request sooner   *)
(* or later resolves or fails (axios settles every promise, the timer of   *)
(* sendToBackend fires), so no continuation waits forever.                 *)
(***************************************************************************)
Answered ==
    /\ WF_vars(\E outcome \in {"true", "false", "fail"} :
                 CheckAuthStatusResume(outcome))
    /\ WF_vars(\E outcome \in Outcomes : HandleLoginResume(outcome))
    /\ WF_vars(\E outcome \in Outcomes : HandleLogoutResume(outcome))
    /\ WF_vars(\E outcome \in Outcomes, sheets \in ListResponses :
                 LoadSpreadsheetsResume(outcome, sheets))
    /\ WF_vars(\E req \in BagToSet(sheetReqs), outcome \in Outcomes,
                  t \in PreviewTables :
                 HandleSheetSelectResume(req, outcome, t))
    /\ WF_vars(SendToBackendResume)

SpecAnswered == Spec /\ Answered

(***************************************************************************)
(* The client with sendToBackend also invoked directly, whatever is on     *)
(* screen (the button is only rendered with a preview, so a click never    *)
(* takes the early return of line 102).                                    *)
(***************************************************************************)
NextCalls ==
    \/ Next
    \/ SendToBackendCall

SpecCalls == Init /\ [][NextCalls]_vars

(***************************************************************************)
(* The specification of the preview rendering: the client with a preview   *)
(* request in flight, answered with every table within the bounds.         *)
(***************************************************************************)
\* Cell values: the empty string and a non-empty one
Cells == {"", "x"}

\* Sequences over S of length at most n
RECURSIVE SeqsUpTo(_, _)
SeqsUpTo(S, n) ==
    IF n = 0 THEN { <<>> }
    ELSE LET shorter == SeqsUpTo(S, n - 1) IN
           shorter \cup { Append(q, x) : q \in { r \in shorter : Len(r) = n - 1 },
                                          x \in S }

\* Rows of at most MaxRowLen cells
Rows == SeqsUpTo(Cells, MaxRowLen)

\* Header rows of 0..MaxCols columns
HeaderRows == { [c \in 1..h |-> "H" \o ToString(c)] : h \in 0..MaxCols }

\* A table of n rows: row r at place k, row q at every other place
RenderTable(hs, n, k, r, q) ==
    Table(hs, [i \in 1..n |-> IF i = k THEN r ELSE q])

\* The state after: mount, status true, list loaded, Beta selected, its
\* sheet clicked
InitRender ==
    /\ isAuthenticated = TRUE
    /\ isLoading = TRUE
    /\ spreadsheets = <<SS_A, SS_B, SS_Z>>
    /\ selectedSpreadsheet = SS_B
    /\ selectedSheet = "S1"
    /\ sheetData = Null
    /\ error = ErrNone
    /\ page = "mounted"
    /\ urlAuth = "none"
    /\ urlMessage = ""
    /\ statusReq = "true"
    /\ loginReqs = 0
    /\ logoutReqs = 0
    /\ listReqs = 0
    /\ sheetReqs = SetToBag({[spreadsheet_id |-> "B", sheet_name |-> "S1"]})
    /\ sendTimers = 0
    /\ last = [op |-> "sheet_click", from |-> "selected"]
    /\ mountAuth = "none"
    /\ logoutClicked = FALSE
    /\ previewOf = Null
    /\ loggedOut = FALSE

\* The answer carries any table of at most MaxRows rows
NextRender ==
    \E req \in BagToSet(sheetReqs), hs \in HeaderRows, n \in 0..MaxRows :
      \E k \in 1..(IF n = 0 THEN 1 ELSE n), r \in Rows, q \in Rows :
        HandleSheetSelectResume(req, "ok", RenderTable(hs, n, k, r, q))

SpecRender == InitRender /\ [][NextRender]_vars

(***************************************************************************)
(* Properties.                                                             *)
(***************************************************************************)
\* The titles of the sheets of a spreadsheet
Titles(spreadsheet) ==
    { spreadsheet.sheets[i].title : i \in DOMAIN spreadsheet.sheets }

\* C1: whenever a spreadsheet is selected and a preview is held, the preview
\* was fetched for a sheet of that spreadsheet (no preview fetched for a
\* sheet of A is held while B is selected), in every interleaving of clicks
\* and responses.
C1_NoResidualPreview ==
    (selectedSpreadsheet # Null /\ sheetData # Null)
        => previewOf.spreadsheet_id = selectedSpreadsheet.spreadsheet_id

\* C2: right after a handleLogout whose backend call succeeded, taken from
\* any view, isAuthenticated is false, spreadsheets is empty,
\* selectedSpreadsheet is null, selectedSheet is '' and sheetData is null.
C2_LogoutClears ==
    last.op = "logout_ok"
        => /\ isAuthenticated = FALSE
           /\ spreadsheets = <<>>
           /\ selectedSpreadsheet = Null
           /\ selectedSheet = ""
           /\ sheetData = Null

\* A successful logout taken with a preview loaded has cleared the session.
C2_Witness ==
    /\ last = [op |-> "logout_ok", from |-> "preview"]
    /\ ~isAuthenticated
    /\ sheetData = Null

\* C3: at no time are two getSheetData requests, or two getSpreadsheets
\* requests, in flight together.
C3_NoOverlappingRequests ==
    /\ BagCardinality(sheetReqs) <= 1
    /\ listReqs <= 1

\* C4: selectedSheet is non-empty only if a spreadsheet is selected, and
\* sheetData is non-null only if a spreadsheet is selected, selectedSheet is
\* non-empty and sheetData answers the request for exactly that spreadsheet
\* and sheet.
C4_PreviewMatchesSelection ==
    /\ selectedSheet # "" => selectedSpreadsheet # Null
    /\ sheetData # Null =>
         /\ selectedSpreadsheet # Null
         /\ selectedSheet # ""
         /\ previewOf = [spreadsheet_id |-> selectedSpreadsheet.spreadsheet_id,
                         sheet_name |-> selectedSheet]

\* C5: right after checkAuthStatus has handled a successful /auth/status
\* response carrying b, isAuthenticated = b, whatever the callback handling
\* at mount had set.
C5_StatusSetsFlag ==
    /\ last.op = "status_true" => isAuthenticated = TRUE
    /\ last.op = "status_false" => isAuthenticated = FALSE

\* The page was loaded with auth=success and the response carried false.
C5_Witness ==
    /\ mountAuth = "success"
    /\ last = [op |-> "status_false", from |-> "list"]
    /\ ~isAuthenticated

\* C6: when the /auth/status request fails, checkAuthStatus of the API
\* client returns false, the step sets isAuthenticated to false, leaves the
\* error banner as it was and issues no request.
C6_StatusFailureIsSilent ==
    [][last'.op = "status_fail" =>
         /\ ApiCheckAuthStatus("fail") = FALSE
         /\ isAuthenticated' = FALSE
         /\ error' = error
         /\ UNCHANGED <<isLoading, loginReqs, logoutReqs, listReqs, sheetReqs,
                        sendTimers>>]_vars

\* The status request failed after a callback error had been shown: the
\* banner still shows it and no list request is in flight.
C6_Witness ==
    /\ last.op = "status_fail"
    /\ ~isAuthenticated
    /\ error = "access_denied"
    /\ listReqs = 0

\* C7 as claimed: after a mount with auth=success the controller is
\* authenticated, with the query parameters removed, in every state until a
\* logout action, whatever the status check answers.
C7_AuthenticatedUntilLogout ==
    (mountAuth = "success" /\ page # "init" /\ ~logoutClicked)
        => (isAuthenticated /\ urlAuth = "none" /\ urlMessage = "")

\* C7 as amended: ... until a logout action or until the status check
\* started at the same mount completes with a false response or a transport
\* failure.
C7_AuthenticatedUntilLogoutOrStatus ==
    (/\ mountAuth = "success"
     /\ page # "init"
     /\ ~logoutClicked
     /\ statusReq \notin {"false", "fail"})
        => (isAuthenticated /\ urlAuth = "none" /\ urlMessage = "")

\* Mounted with auth=success, the status check answered true, a preview is
\* loaded and no logout was asked for.
C7_Witness ==
    /\ mountAuth = "success"
    /\ statusReq = "true"
    /\ ~logoutClicked
    /\ isAuthenticated
    /\ urlAuth = "none"
    /\ sheetData # Null

\* C8: when the backend logout call fails, the step leaves isAuthenticated,
\* spreadsheets, selectedSpreadsheet, selectedSheet and sheetData as they
\* were; it changes only the error banner, to 'Failed to logout'.
C8_FailedLogoutKeepsSession ==
    [][last'.op = "logout_fail" =>
         /\ UNCHANGED <<isAuthenticated, spreadsheets, selectedSpreadsheet,
                        selectedSheet, sheetData, isLoading>>
         /\ error' = "Failed to logout"]_vars

\* A logout failed with a preview loaded: the preview is still there.
C8_Witness ==
    /\ last = [op |-> "logout_fail", from |-> "preview"]
    /\ isAuthenticated
    /\ sheetData # Null
    /\ selectedSheet # ""
    /\ error = "Failed to logout"

\* C9: for a preview with headers, the body shows the first min(5, rows)
\* rows, each as exactly len(headers) cells; cell j is row[j] when the row
\* has a j-th value and '' otherwise.
C9_RenderedCells ==
    (sheetData # Null /\ Len(sheetData.headers) > 0) =>
        LET body == RenderBody(sheetData)
            rows == IF Len(sheetData.data) < 5 THEN Len(sheetData.data) ELSE 5
        IN  /\ DOMAIN body = 1..rows
            /\ \A r \in 1..rows :
                 /\ DOMAIN body[r] = 1..Len(sheetData.headers)
                 /\ \A j \in 1..Len(sheetData.headers) :
                      body[r][j] = IF j <= Len(sheetData.data[r])
                                   THEN sheetData.data[r][j]
                                   ELSE ""

\* Three headers and the single row [x, x]: the row is shown as x, x, ''.
C9_Witness ==
    /\ sheetData # Null
    /\ Len(sheetData.headers) = 3
    /\ sheetData.data = << <<"x", "x">> >>
    /\ RenderBody(sheetData) = << <<"x", "x", "">> >>

\* C10: selectedSheet is always '' or the title of a sheet of the selected
\* spreadsheet; while the selected spreadsheet has no sheet, no sheet button
\* is on screen and no sheet selection (hence no getSheetData request) is
\* possible; selecting a spreadsheet leaves the error banner as it was.
C10_SheetsOfSelection ==
    /\ [](/\ selectedSheet # "" =>
               /\ selectedSpreadsheet # Null
               /\ selectedSheet \in Titles(selectedSpreadsheet)
          /\ (selectedSpreadsheet # Null /\ selectedSpreadsheet.sheets = <<>>) =>
               /\ SheetButtons = {}
               /\ ~ENABLED (\E sheetName \in {"S1", "S2"} :
                              HandleSheetSelect(sheetName)))
    /\ [][last'.op = "select_spreadsheet" =>
            /\ error' = error
            /\ sheetReqs' = sheetReqs]_vars

\* The spreadsheet without sheets was selected while a sheet of another one
\* was chosen: the choice is gone and nothing is in flight for it.
C10_Witness ==
    /\ last = [op |-> "select_spreadsheet", from |-> "preview"]
    /\ selectedSpreadsheet = SS_Z
    /\ selectedSheet = ""
    /\ error = ErrNone

\* The steps that handle the answer to a status, list or sheet request
ResponseOps ==
    {"status_true", "status_false", "status_fail", "list_ok", "list_fail",
     "sheet_ok", "sheet_fail"}

\* C11: once a logout has succeeded and the controller is unauthenticated,
\* no answer to a status, list or sheet request (all of them issued before
\* that logout) changes isAuthenticated, spreadsheets, selectedSpreadsheet,
\* selectedSheet or sheetData.
C11_LogoutIsFinal ==
    [][(loggedOut /\ ~isAuthenticated /\ last'.op \in ResponseOps)
          => UNCHANGED session]_vars

\* C12: whenever a getSpreadsheets request, a getSheetData request or a
\* send operation has not yet resolved, isLoading is true.
C12_LoadingWhileOutstanding ==
    (listReqs > 0 \/ BagCardinality(sheetReqs) > 0 \/ sendTimers > 0)
        => isLoading

\* C13: when the status check answers true, the same step issues a
\* getSpreadsheets request with no user action; a controller that is
\* authenticated by the callback handling at mount either stops being
\* authenticated or gets that answer and issues the request; and when a
\* getSpreadsheets request succeeds, spreadsheets is the response.
C13_EagerListLoad ==
    /\ [][last'.op = "status_true" =>
            (isAuthenticated' /\ isLoading' /\ listReqs' = listReqs + 1)]_vars
    /\ [][last'.op = "list_ok" => spreadsheets' = last'.data]_vars
    /\ (Live /\ isAuthenticated /\ statusReq = "pending")
         ~> (~isAuthenticated \/ (last.op = "status_true" /\ listReqs > 0))

\* After a mount with auth=success the status check answered true and the
\* list it asked for has arrived.
C13_Witness ==
    /\ mountAuth = "success"
    /\ statusReq = "true"
    /\ isAuthenticated
    /\ last.op = "list_ok"
    /\ last.from = "list"
    /\ spreadsheets = <<SS_A, SS_B, SS_Z>>

\* C14: the step that handles a failed getSpreadsheets leaves
\* isAuthenticated, spreadsheets, selectedSpreadsheet, selectedSheet and
\* sheetData as they were, sets the banner to 'Failed to load spreadsheets'
\* and isLoading to false, and issues no request; the step that handles a
\* failed getSheetData sets 'Failed to load sheet data' and issues no
\* request.
C14_FailureReportedOnce ==
    [][/\ last'.op = "list_fail" =>
            /\ UNCHANGED session
            /\ error' = "Failed to load spreadsheets"
            /\ isLoading' = FALSE
            /\ listReqs' = listReqs - 1
            /\ UNCHANGED <<statusReq, loginReqs, logoutReqs, sheetReqs,
                           sendTimers>>
       /\ last'.op = "sheet_fail" =>
            /\ error' = "Failed to load sheet data"
            /\ isLoading' = FALSE
            /\ BagCardinality(sheetReqs') = BagCardinality(sheetReqs) - 1
            /\ UNCHANGED <<statusReq, loginReqs, logoutReqs, listReqs,
                           sendTimers>>]_vars

\* A refresh failed with a preview loaded: list, selection and preview are
\* still there, the banner is set, nothing is in flight.
C14_Witness ==
    /\ last = [op |-> "list_fail", from |-> "preview"]
    /\ spreadsheets # <<>>
    /\ sheetData # Null
    /\ error = ErrList
    /\ ~isLoading
    /\ InFlight = 0

\* C15: a mount with auth=error puts the provider's message (or
\* 'Authentication failed' when there is none) in the error banner, removes
\* the query parameters and does not set isAuthenticated; and the step that
\* completes the status check started at that mount, whatever it answers,
\* leaves the banner as it was.
C15_CallbackErrorStays ==
    [][/\ (last'.op = "mount" /\ urlAuth = "error") =>
            /\ error' = (IF urlMessage # "" THEN urlMessage
                         ELSE "Authentication failed")
            /\ urlAuth' = "none"
            /\ urlMessage' = ""
            /\ isAuthenticated' = FALSE
       /\ (mountAuth = "error"
           /\ last'.op \in {"status_true", "status_false", "status_fail"}) =>
            error' = error]_vars

\* C16: the step that handles a successful initiateLogin assigns auth_url
\* to the location (navigation) with isLoading true and no initiateLogin
\* request in flight, and isLoading stays true from then on; the step that
\* handles a failed one does not navigate, sets the banner to 'Failed to
\* initiate Google login' and isLoading to false, and leaves
\* isAuthenticated as it was.
C16_LoginAllOrNothing ==
    [][/\ last'.op = "login_ok" =>
            /\ page' = "navigated"
            /\ isLoading' = TRUE
            /\ loginReqs' = 0
       /\ (page = "navigated" /\ isLoading) => isLoading'
       /\ last'.op = "login_fail" =>
            /\ page' = page
            /\ error' = "Failed to initiate Google login"
            /\ isLoading' = FALSE
            /\ isAuthenticated' = isAuthenticated]_vars

\* C17: selectedSpreadsheet is null or an element of spreadsheets.
C17_SelectionInList ==
    selectedSpreadsheet = Null
        \/ \E i \in DOMAIN spreadsheets : spreadsheets[i] = selectedSpreadsheet

\* C18: the step that handles the answer (or the failure) of a
\* getSpreadsheets or getSheetData request, or the end of a send, sets
\* isLoading to false; and when every request is answered, isLoading never
\* stays true forever while the page stays loaded.
C18_LoadingEnds ==
    /\ [][last'.op \in {"list_ok", "list_fail", "sheet_ok", "sheet_fail",
                        "send_done"} => isLoading' = FALSE]_vars
    /\ (page = "mounted" /\ isLoading) ~> (page # "mounted" \/ ~isLoading)

\* A sheet fetch failed while a preview was shown: the controls are enabled
\* again.
C18_Witness ==
    /\ last = [op |-> "sheet_fail", from |-> "preview"]
    /\ page = "mounted"
    /\ ~isLoading
    /\ InFlight = 0

\* C19: sendToBackend called without a preview changes neither isLoading
\* nor the error banner nor anything else; called with a preview, its
\* payload carries the spreadsheet_id, sheet_name, headers and data of that
\* preview; neither the call nor its completion changes isAuthenticated,
\* spreadsheets, selectedSpreadsheet, selectedSheet or sheetData.
C19_SendFrame ==
    [][/\ last'.op = "send_skip" =>
            /\ sheetData = Null
            /\ UNCHANGED <<session, isLoading, error, browser, requests>>
       /\ last'.op = "send_click" =>
            /\ sheetData # Null
            /\ last'.data.spreadsheet_id = sheetData.spreadsheet_id
            /\ last'.data.sheet_name = sheetData.sheet_name
            /\ last'.data.headers = sheetData.headers
            /\ last'.data.data = sheetData.data
            /\ UNCHANGED session
       /\ last'.op = "send_done" => UNCHANGED <<session, error>>]_vars

\* The preview of sheet S1 of Alpha was sent: the payload names it and
\* carries its headers and rows.
C19_Witness ==
    /\ last.op = "send_click"
    /\ last.data = [spreadsheet_id |-> "A", sheet_name |-> "S1",
                    headers |-> <<"A", "B", "C">>,
                    data |-> << <<"1", "2">> >>]
    /\ sheetData = SheetData("A", "S1",
                             Table(<<"A", "B", "C">>, << <<"1", "2">> >>))
    /\ isLoading

=============================================================================
